---- MODULE Spec2Model ----
(***************************************************************************)
(* Model of lambda/index.py: the two chat entry points lambda_handler      *)
(* (hosted Bedrock backend) and lambda_fastapi_handler (self-hosted HTTP   *)
(* backend), and the module-global cached client handle bedrock_client.    *)
(*                                                                         *)
(* JSON values are modelled as data: an absent key is MISSING, a JSON null *)
(* is NULL, an object or array is a tagged record.  The dict handed to     *)
(* json.dumps for the response body is modelled as that dict (a record     *)
(* whose DOMAIN is its set of keys).                                       *)
(***************************************************************************)
EXTENDS Integers, Sequences, FiniteSets, TLC

\* ---------------------------------------------------------------- bounds
\* longest caller-supplied conversationHistory that is enumerated
MaxHist == 2

\* ------------------------------------------------------------ JSON values
MISSING == "<missing>"          \* the key is not in the dict
NULL == "<null>"                \* JSON null / Python None
Absent == [kind |-> "absent"]   \* a structured value whose key is missing
Null == [kind |-> "null"]       \* a structured value that is JSON null
List(s) == [kind |-> "list", items |-> s]

\* invocations that may be in progress in one process
Inv == {1, 2}

\* bedrock_client = None
None == "<None>"
NoRegion == "<unset>"
NoResult == [statusCode |-> 0]
NoReply == [kind |-> "none"]
NoEvent == [body |-> [kind |-> "nokey"], auth |-> "none"]
NoArn == <<>>

SeqUpTo(S, n) == UNION {[1..k -> S] : k \in 0..n}

\* ----------------------------------------------------------------- inputs
Roles == {"user", "assistant", "system", MISSING}
Contents == {"a", MISSING}
Turns == [role : Roles, content : Contents]
Histories == {Absent, Null} \cup {List(s) : s \in SeqUpTo(Turns, MaxHist)}
Messages == {MISSING, NULL, "hello"}

\* event['body']: key missing, not JSON, JSON that is no object, or an object
Bodies ==
    {[kind |-> "nokey"], [kind |-> "badjson"], [kind |-> "nonobj"]}
    \cup {[kind |-> "obj", message |-> m, conversationHistory |-> h] :
            m \in Messages, h \in Histories}

\* event['requestContext']['authorizer']: absent, with claims, without claims
Auths == {"none", "claims", "noclaims"}
Events == [body : Bodies, auth : Auths]

\* context.invoked_function_arn, split at ':'
Arns ==
    { <<"arn", "aws", "lambda", "eu-west-1", "123456789012", "function", "foo">>,
      <<"xarn", "aws", "lambda", "ap-northeast-1", "1", "function", "foo">>,
      <<"arn", "aws", "lambda", "us-west-2">>,
      <<"arn", "aws", "s3", "", "", "bucket">> }

\* what bedrock_client.invoke_model(...) / response['body'].read() can produce
ContentLists ==
    { <<>>,
      <<[text |-> MISSING]>>,
      <<[text |-> NULL]>>,
      <<[text |-> "hi there"]>>,
      <<[text |-> "hi there"], [text |-> "second"]>>,
      <<[text |-> MISSING], [text |-> "second"]>> }
BedrockBodies ==
    { [kind |-> "nonobj"],
      [kind |-> "obj", output |-> Absent],
      [kind |-> "obj", output |-> Null],
      [kind |-> "obj", output |-> [kind |-> "obj", message |-> Absent]],
      [kind |-> "obj", output |->
          [kind |-> "obj", message |-> [kind |-> "obj", content |-> Absent]]] }
    \cup { [kind |-> "obj", output |->
              [kind |-> "obj", message |-> [kind |-> "obj", content |-> List(c)]]] :
           c \in ContentLists }
BedrockReplies ==
    {[kind |-> "raise", error |-> "An error occurred (ThrottlingException)"],
     [kind |-> "badjson"]}
    \cup {[kind |-> "json", val |-> b] : b \in BedrockBodies}

\* what urlopen(req) / resp.read() can produce
ApiResults ==
    {[kind |-> "nonobj"]}
    \cup {[kind |-> "obj", generated_text |-> g, response_time |-> t] :
            g \in {MISSING, NULL, "pong"}, t \in {MISSING, "0.42"}}
FastapiReplies ==
    {[kind |-> "httperror", status |-> s] : s \in {404, 500}}
    \cup {[kind |-> "urlerror"], [kind |-> "badjson"]}
    \cup {[kind |-> "json", status |-> 200, val |-> a] : a \in ApiResults}

\* ------------------------------------------------------- pure functions
\* re.search('arn:aws:lambda:([^:]+):', arn): a segment ending in "arn",
\* then "aws", "lambda", a non-empty segment, and one more ':' after it
EndsWithArn(s) == s \in {"arn", "xarn"}
MatchAt(arn, i) ==
    /\ i + 4 <= Len(arn)
    /\ EndsWithArn(arn[i])
    /\ arn[i + 1] = "aws"
    /\ arn[i + 2] = "lambda"
    /\ arn[i + 3] # ""
extract_region_from_arn(arn) ==
    IF \E i \in 1..Len(arn) : MatchAt(arn, i)
    THEN LET i == CHOOSE j \in 1..Len(arn) :
                    /\ MatchAt(arn, j)
                    /\ \A k \in 1..(j - 1) : ~MatchAt(arn, k)
         IN arn[i + 3]
    ELSE "us-east-1"

Ok(v) == [ok |-> TRUE, val |-> v, error |-> ""]
Raise(e) == [ok |-> FALSE, val |-> NULL, error |-> e]

\* body = json.loads(event['body']); message = body['message'];
\* conversation_history = body.get('conversationHistory', [])
ParseRequest(ev) ==
    CASE ev.body.kind = "nokey" -> Raise("'body'")
      [] ev.body.kind = "badjson" -> Raise("Expecting value: line 1 column 1 (char 0)")
      [] ev.body.kind = "nonobj" -> Raise("list indices must be integers or slices, not str")
      [] OTHER ->
            IF ev.body.message = MISSING
            THEN Raise("'message'")
            ELSE Ok([message |-> ev.body.message,
                     conversation_history |->
                        IF ev.body.conversationHistory = Absent
                        THEN List(<<>>)
                        ELSE ev.body.conversationHistory])

\* conversation_history.copy()
CopyHistory(h) ==
    IF h.kind = "list"
    THEN Ok(h.items)
    ELSE Raise("'NoneType' object has no attribute 'copy'")

UserTurn(m) == [role |-> "user", content |-> m]
AssistantTurn(r) == [role |-> "assistant", content |-> r]

\* variant: the user turn is not appended
AssembleMessages_NoUserTurn(items, message) == items

\* messages = conversation_history.copy(); messages.append({user, message})
AssembleMessages(items, message) == Append(items, UserTurn(message))

\* variant: the elif branch for assistant turns is missing
MapTurn_UserOnly(msg) ==
    IF msg.role = MISSING THEN Raise("'role'")
    ELSE IF msg.role = "user"
         THEN IF msg.content = MISSING
              THEN Raise("'content'")
              ELSE Ok(<<[role |-> msg.role, content |-> <<[text |-> msg.content]>>]>>)
         ELSE Ok(<<>>)

\* one pass of the for-loop body over msg
MapTurn(msg) ==
    IF msg.role = MISSING THEN Raise("'role'")
    ELSE IF msg.role \in {"user", "assistant"}
         THEN IF msg.content = MISSING
              THEN Raise("'content'")
              ELSE Ok(<<[role |-> msg.role, content |-> <<[text |-> msg.content]>>]>>)
         ELSE Ok(<<>>)

\* the for-loop building bedrock_messages; the first raising turn aborts it
RECURSIVE MapBedrock(_)
MapBedrock(msgs) ==
    IF msgs = <<>> THEN Ok(<<>>)
    ELSE LET h == MapTurn(Head(msgs))
         IN IF ~h.ok THEN h
            ELSE LET t == MapBedrock(Tail(msgs))
                 IN IF ~t.ok THEN t ELSE Ok(h.val \o t.val)

\* Python truthiness of x.get(key) for the values enumerated here
Truthy(v) == v.kind = "obj" \/ (v.kind = "list" /\ v.items # <<>>)

\* variant: content[-1] is read instead of content[0]
ValidateBedrock_LastElement(rb) ==
    IF rb.kind # "obj"
    THEN Raise("'list' object has no attribute 'get'")
    ELSE IF \/ ~Truthy(rb.output)
            \/ ~Truthy(rb.output.message)
            \/ ~Truthy(rb.output.message.content)
         THEN Raise("No response content from the model")
         ELSE LET items == rb.output.message.content.items
                  last == items[Len(items)]
              IN IF last.text = MISSING THEN Raise("'text'") ELSE Ok(last.text)

\* response validation and extraction of the assistant's text
ValidateBedrock(rb) ==
    IF rb.kind # "obj"
    THEN Raise("'list' object has no attribute 'get'")
    ELSE IF \/ ~Truthy(rb.output)
            \/ ~Truthy(rb.output.message)
            \/ ~Truthy(rb.output.message.content)
         THEN Raise("No response content from the model")
         ELSE LET first == rb.output.message.content.items[1]
              IN IF first.text = MISSING THEN Raise("'text'") ELSE Ok(first.text)

\* variant: only generated_text is required
ValidateFastapi_TextOnly(ar) ==
    IF ar.kind # "obj"
    THEN Raise("Unexpected response from FastAPI: []")
    ELSE IF ar.generated_text = MISSING
         THEN Raise("Unexpected response from FastAPI: {...}")
         ELSE Ok([assistant_response |-> ar.generated_text,
                  response_time |-> ar.response_time])

\* 'generated_text' not in api_result or 'response_time' not in api_result
ValidateFastapi(ar) ==
    IF ar.kind # "obj"
    THEN Raise("Unexpected response from FastAPI: []")
    ELSE IF ar.generated_text = MISSING \/ ar.response_time = MISSING
         THEN Raise("Unexpected response from FastAPI: {...}")
         ELSE Ok([assistant_response |-> ar.generated_text,
                  response_time |-> ar.response_time])

\* variant: the assistant turn is inserted at the front
UpdatedHistory_Prepend(h, assistant_response) ==
    LET c == CopyHistory(h)
    IN IF ~c.ok THEN c ELSE Ok(<<AssistantTurn(assistant_response)>> \o c.val)

\* updated_history = conversation_history.copy(); append assistant turn
UpdatedHistory(h, assistant_response) ==
    LET c == CopyHistory(h)
    IN IF ~c.ok THEN c ELSE Ok(Append(c.val, AssistantTurn(assistant_response)))

\* payload_dict of lambda_fastapi_handler
FastapiPayload(message) ==
    [prompt |-> message, max_new_tokens |-> 512, do_sample |-> TRUE,
     temperature |-> "0.7", top_p |-> "0.9"]

\* request_payload of lambda_handler
BedrockPayload(bedrock_messages) ==
    [messages |-> bedrock_messages,
     inferenceConfig |-> [maxTokens |-> 512, stopSequences |-> <<>>,
                          temperature |-> "0.7", topP |-> "0.9"]]

CorsHeaders ==
    ("Content-Type" :> "application/json")
    @@ ("Access-Control-Allow-Origin" :> "*")
    @@ ("Access-Control-Allow-Headers" :>
            "Content-Type,X-Amz-Date,Authorization,X-Api-Key,X-Amz-Security-Token")
    @@ ("Access-Control-Allow-Methods" :> "OPTIONS,POST")

SuccessEnvelopeA(assistant_response, messages) ==
    [statusCode |-> 200, headers |-> CorsHeaders,
     body |-> [success |-> TRUE, response |-> assistant_response,
               conversationHistory |-> messages]]

SuccessEnvelopeB(assistant_response, response_time, updated_history) ==
    [statusCode |-> 200, headers |-> CorsHeaders,
     body |-> [success |-> TRUE, response |-> assistant_response,
               response_time |-> response_time,
               conversationHistory |-> updated_history]]

\* variant: the failure body carries an empty response as well
FailureEnvelope_KeepsResponse(error) ==
    [statusCode |-> 500, headers |-> CorsHeaders,
     body |-> [success |-> FALSE, error |-> error, response |-> ""]]

FailureEnvelope(error) ==
    [statusCode |-> 500, headers |-> CorsHeaders,
     body |-> [success |-> FALSE, error |-> error]]

\* lines 114-152 of lambda_handler: authorizer claims, request parsing,
\* history assembly and the mapping to the Bedrock message list
PrepareBedrock(ev) ==
    IF ev.auth = "noclaims" THEN Raise("'claims'")
    ELSE LET p == ParseRequest(ev)
         IN IF ~p.ok THEN p
            ELSE LET c == CopyHistory(p.val.conversation_history)
                 IN IF ~c.ok THEN c
                    ELSE LET msgs == AssembleMessages(c.val, p.val.message)
                             m == MapBedrock(msgs)
                         IN IF ~m.ok THEN m
                            ELSE Ok([message |-> p.val.message,
                                     conversation_history |-> p.val.conversation_history,
                                     messages |-> msgs,
                                     bedrock_messages |-> m.val])

\* str(HTTPError)
HttpErrorText(status) ==
    IF status = 404 THEN "HTTP Error 404: Not Found"
    ELSE "HTTP Error 500: Internal Server Error"

\* ------------------------------------------------------------------ state
\* bedrock_client: the module-global handle, None or the constructed client
\*                 (identified by the region it was constructed for)
\* frame: per invocation, its position in the handler and its local variables
VARIABLES bedrock_client, frame

vars == <<bedrock_client, frame>>

IdleFrame ==
    [pc |-> "idle", handler |-> "none", event |-> NoEvent, arn |-> NoArn,
     region |-> NoRegion, message |-> MISSING, conversation_history |-> Absent,
     messages |-> <<>>, bedrock_messages |-> <<>>, sent |-> <<>>,
     client_used |-> None, reply |-> NoReply, result |-> NoResult]

Init ==
    /\ bedrock_client = None
    /\ frame = [i \in Inv |-> IdleFrame]

\* the except-branch of either handler
Fail(i, error) ==
    frame' = [frame EXCEPT ![i].pc = "done", ![i].result = FailureEnvelope(error)]

\* the runtime calls a handler with (event, context)
Start(i, h, ev, arn) ==
    /\ frame[i].pc = "idle"
    /\ frame' = [frame EXCEPT ![i] =
                    [IdleFrame EXCEPT !.pc = IF h = "lambda_handler" THEN "init" ELSE "parse",
                                      !.handler = h, !.event = ev, !.arn = arn]]
    /\ UNCHANGED bedrock_client

\* ------------------------------------------------------- lambda_handler
\* variant: the client is constructed on every invocation
CheckClient_Always(i) ==
    /\ frame[i].pc = "init"
    /\ frame' = [frame EXCEPT ![i].pc = "construct"]
    /\ UNCHANGED bedrock_client

\* if bedrock_client is None:
CheckClient(i) ==
    /\ frame[i].pc = "init"
    /\ frame' = [frame EXCEPT ![i].pc =
                    IF bedrock_client = None THEN "construct" ELSE "parse"]
    /\ UNCHANGED bedrock_client

\* variant: without the global statement the client is bound to a local
ConstructClient_Local(i) ==
    /\ frame[i].pc = "construct"
    /\ LET region == extract_region_from_arn(frame[i].arn)
       IN frame' = [frame EXCEPT ![i].pc = "parse", ![i].region = region]
    /\ UNCHANGED bedrock_client

\* region = extract_region_from_arn(...); bedrock_client = boto3.client(...)
\* boto3.client may raise, and then the global is not assigned
ConstructClient(i) ==
    /\ frame[i].pc = "construct"
    /\ LET region == extract_region_from_arn(frame[i].arn)
       IN \E constructed \in BOOLEAN :
            IF constructed
            THEN /\ bedrock_client' = region
                 /\ frame' = [frame EXCEPT ![i].pc = "parse", ![i].region = region]
            ELSE /\ UNCHANGED bedrock_client
                 /\ frame' = [frame EXCEPT ![i].pc = "done", ![i].region = region,
                                 ![i].result = FailureEnvelope("Could not create client")]

PrepareRequest(i) ==
    /\ frame[i].pc = "parse"
    /\ frame[i].handler = "lambda_handler"
    /\ LET p == PrepareBedrock(frame[i].event)
       IN IF ~p.ok THEN Fail(i, p.error)
          ELSE frame' = [frame EXCEPT ![i].pc = "call",
                            ![i].message = p.val.message,
                            ![i].conversation_history = p.val.conversation_history,
                            ![i].messages = p.val.messages,
                            ![i].bedrock_messages = p.val.bedrock_messages]
    /\ UNCHANGED bedrock_client

\* variant: a raising call is tried again
InvokeModel_Retry(i) ==
    /\ frame[i].pc = "call"
    /\ frame[i].handler = "lambda_handler"
    /\ IF bedrock_client = None
       THEN Fail(i, "'NoneType' object has no attribute 'invoke_model'")
       ELSE \E reply \in BedrockReplies :
              LET called == [frame EXCEPT
                                ![i].sent = Append(@, BedrockPayload(frame[i].bedrock_messages)),
                                ![i].client_used = bedrock_client,
                                ![i].reply = reply]
              IN IF reply.kind = "raise"
                 THEN frame' = called
                 ELSE frame' = [called EXCEPT ![i].pc = "validate"]
    /\ UNCHANGED bedrock_client

\* response = bedrock_client.invoke_model(...): the global is read here
InvokeModel(i) ==
    /\ frame[i].pc = "call"
    /\ frame[i].handler = "lambda_handler"
    /\ IF bedrock_client = None
       THEN Fail(i, "'NoneType' object has no attribute 'invoke_model'")
       ELSE \E reply \in BedrockReplies :
              LET called == [frame EXCEPT
                                ![i].sent = Append(@, BedrockPayload(frame[i].bedrock_messages)),
                                ![i].client_used = bedrock_client,
                                ![i].reply = reply]
              IN IF reply.kind = "raise"
                 THEN frame' = [called EXCEPT ![i].pc = "done",
                                   ![i].result = FailureEnvelope(reply.error)]
                 ELSE frame' = [called EXCEPT ![i].pc = "validate"]
    /\ UNCHANGED bedrock_client

\* lines 175-205: decode, validate, append the assistant turn, return 200
RespondBedrock(i) ==
    /\ frame[i].pc = "validate"
    /\ frame[i].handler = "lambda_handler"
    /\ IF frame[i].reply.kind = "badjson"
       THEN Fail(i, "Expecting value: line 1 column 1 (char 0)")
       ELSE LET v == ValidateBedrock(frame[i].reply.val)
            IN IF ~v.ok THEN Fail(i, v.error)
               ELSE LET msgs == Append(frame[i].messages, AssistantTurn(v.val))
                    IN frame' = [frame EXCEPT ![i].pc = "done",
                                    ![i].messages = msgs,
                                    ![i].result = SuccessEnvelopeA(v.val, msgs)]
    /\ UNCHANGED bedrock_client

\* ----------------------------------------------- lambda_fastapi_handler
\* lines 27-49: parse the request and build the generation request
PrepareFastapi(i) ==
    /\ frame[i].pc = "parse"
    /\ frame[i].handler = "lambda_fastapi_handler"
    /\ LET p == ParseRequest(frame[i].event)
       IN IF ~p.ok THEN Fail(i, p.error)
          ELSE frame' = [frame EXCEPT ![i].pc = "call",
                            ![i].message = p.val.message,
                            ![i].conversation_history = p.val.conversation_history]
    /\ UNCHANGED bedrock_client

\* lines 51-57: urlopen, read, json.loads; HTTPError is re-raised
PostGenerate(i) ==
    /\ frame[i].pc = "call"
    /\ frame[i].handler = "lambda_fastapi_handler"
    /\ \E reply \in FastapiReplies :
          LET called == [frame EXCEPT
                            ![i].sent = Append(@, FastapiPayload(frame[i].message)),
                            ![i].reply = reply]
          IN CASE reply.kind = "httperror" ->
                    frame' = [called EXCEPT ![i].pc = "done",
                                 ![i].result = FailureEnvelope(HttpErrorText(reply.status))]
               [] reply.kind = "urlerror" ->
                    frame' = [called EXCEPT ![i].pc = "done",
                                 ![i].result = FailureEnvelope("<urlopen error timed out>")]
               [] reply.kind = "badjson" ->
                    frame' = [called EXCEPT ![i].pc = "done",
                                 ![i].result = FailureEnvelope("Expecting value: line 1 column 1 (char 0)")]
               [] OTHER -> frame' = [called EXCEPT ![i].pc = "validate"]
    /\ UNCHANGED bedrock_client

\* lines 59-85: validate, append the assistant turn to a copy, return 200
RespondFastapi(i) ==
    /\ frame[i].pc = "validate"
    /\ frame[i].handler = "lambda_fastapi_handler"
    /\ LET v == ValidateFastapi(frame[i].reply.val)
       IN IF ~v.ok THEN Fail(i, v.error)
          ELSE LET u == UpdatedHistory(frame[i].conversation_history,
                                       v.val.assistant_response)
               IN IF ~u.ok THEN Fail(i, u.error)
                  ELSE frame' = [frame EXCEPT ![i].pc = "done",
                                    ![i].result = SuccessEnvelopeB(v.val.assistant_response,
                                                                   v.val.response_time, u.val)]
    /\ UNCHANGED bedrock_client

\* the handler has returned; its locals are discarded
Return(i) ==
    /\ frame[i].pc = "done"
    /\ frame' = [frame EXCEPT ![i] = IdleFrame]
    /\ UNCHANGED bedrock_client

\* ---------------------------------------------------------- specifications
\* Non-overlapping invocations of either handler in one process.
InvokeLambda ==
    /\ frame[1].pc = "idle"
    /\ \E ev \in Events, arn \in Arns : Start(1, "lambda_handler", ev, arn)

\* lambda_fastapi_handler reads neither context nor requestContext
InvokeFastapi ==
    /\ frame[1].pc = "idle"
    /\ \E ev \in {e \in Events : e.auth = "none"} :
            Start(1, "lambda_fastapi_handler", ev, NoArn)

Next ==
    \/ InvokeLambda
    \/ InvokeFastapi
    \/ CheckClient(1)
    \/ ConstructClient(1)
    \/ PrepareRequest(1)
    \/ InvokeModel(1)
    \/ RespondBedrock(1)
    \/ PrepareFastapi(1)
    \/ PostGenerate(1)
    \/ RespondFastapi(1)
    \/ Return(1)

Spec == Init /\ [][Next]_vars

\* Two lambda_handler invocations interleaving in one process.  What they
\* share is the client handle; the requests are those without a
\* conversationHistory and without authorizer claims.
ConcEvents ==
    {e \in Events :
        /\ e.auth = "none"
        /\ e.body.kind \in {"badjson", "obj"}
        /\ e.body.kind = "obj" => e.body.conversationHistory = Absent}

InvokeConcurrent(i) ==
    /\ frame[i].pc = "idle"
    /\ \E ev \in ConcEvents, arn \in Arns : Start(i, "lambda_handler", ev, arn)

NextConc ==
    \E i \in Inv :
        \/ InvokeConcurrent(i)
        \/ CheckClient(i)
        \/ ConstructClient(i)
        \/ PrepareRequest(i)
        \/ InvokeModel(i)
        \/ RespondBedrock(i)
        \/ Return(i)

SpecConc == Init /\ [][NextConc]_vars

\* ------------------------------------------------------------- properties
IsLambda(i) == frame[i].handler = "lambda_handler"
IsFastapi(i) == frame[i].handler = "lambda_fastapi_handler"
Done(i) == frame[i].pc = "done"
Status(i) == frame[i].result.statusCode
Keys(i) == DOMAIN frame[i].result.body

\* the request body is a JSON object
HasObjectBody(i) == frame[i].event.body.kind = "obj"

\* H: the turns the caller supplied (none when the key is absent)
CallerHistory(i) ==
    IF HasObjectBody(i) /\ frame[i].event.body.conversationHistory.kind = "list"
    THEN frame[i].event.body.conversationHistory.items
    ELSE <<>>

\* the caller's conversationHistory is absent or an array
HistoryIsList(i) ==
    /\ HasObjectBody(i)
    /\ frame[i].event.body.conversationHistory.kind \in {"absent", "list"}

SuccessShape(i) ==
    /\ Status(i) = 200
    /\ frame[i].result.body.success = TRUE
    /\ "response" \in Keys(i)
    /\ "error" \notin Keys(i)

FailureShape(i) ==
    /\ Status(i) = 500
    /\ frame[i].result.body.success = FALSE
    /\ "error" \in Keys(i)
    /\ "response" \notin Keys(i)
    /\ "conversationHistory" \notin Keys(i)

\* C1: every returned response, from either handler and for every event and
\* backend outcome, is the success envelope (200, success=true, a response
\* field) or the failure envelope (500, success=false, an error field, no
\* response and no conversationHistory field); nothing is returned before.
C1_BinaryEnvelope ==
    \A i \in Inv :
        /\ Done(i) => (SuccessShape(i) \/ FailureShape(i))
        /\ ~Done(i) => frame[i].result = NoResult

\* a malformed 2xx reply of the HTTP backend has ended in the failure envelope
C1_Witness ==
    /\ Done(1) /\ IsFastapi(1)
    /\ frame[1].reply.kind = "json"
    /\ FailureShape(1)

\* C2: a request whose body has no message field, or a null message field,
\* ends in the failure envelope and never in a 200 response.
C2_MissingOrNullMessageFails ==
    \A i \in Inv :
        (/\ Done(i)
         /\ HasObjectBody(i)
         /\ frame[i].event.body.message \in {MISSING, NULL})
        => FailureShape(i)

\* C3: a successful lambda_handler invocation returns H, then the user turn
\* with m, then the assistant turn with r; the sequence that is mapped has
\* |H|+1 turns and the returned history |H|+2.
C3_RoundTripHistory ==
    \A i \in Inv :
        IsLambda(i) =>
            /\ frame[i].pc \in {"call", "validate"} =>
                  /\ Len(frame[i].messages) = Len(CallerHistory(i)) + 1
                  /\ frame[i].messages =
                        CallerHistory(i) \o <<UserTurn(frame[i].event.body.message)>>
            /\ (Done(i) /\ Status(i) = 200) =>
                  /\ HistoryIsList(i)
                  /\ frame[i].reply.kind = "json"
                  /\ frame[i].result.body.conversationHistory =
                        CallerHistory(i)
                        \o <<[role |-> "user", content |-> frame[i].event.body.message]>>
                        \o <<[role |-> "assistant",
                              content |-> frame[i].result.body.response]>>
                  /\ frame[i].result.body.response =
                        frame[i].reply.val.output.message.content.items[1].text
                  /\ Len(frame[i].result.body.conversationHistory) =
                        Len(CallerHistory(i)) + 2

\* success with a two-turn history that holds a turn of another role
C3_Witness ==
    /\ Done(1) /\ IsLambda(1) /\ Status(1) = 200
    /\ Len(CallerHistory(1)) = 2
    /\ CallerHistory(1)[1].role = "system"
    /\ CallerHistory(1)[2].role = "assistant"

\* C4: a successful lambda_fastapi_handler invocation returns H followed only
\* by the assistant turn with r (length |H|+1, no user turn with m), and the
\* one request sent to the backend carries m as prompt and nothing of H.
C4_AssistantOnlyHistory ==
    \A i \in Inv :
        (IsFastapi(i) /\ Done(i) /\ Status(i) = 200) =>
            /\ HistoryIsList(i)
            /\ frame[i].reply.kind = "json"
            /\ frame[i].result.body.response = frame[i].reply.val.generated_text
            /\ frame[i].result.body.conversationHistory =
                  CallerHistory(i)
                  \o <<[role |-> "assistant", content |-> frame[i].reply.val.generated_text]>>
            /\ Len(frame[i].result.body.conversationHistory) = Len(CallerHistory(i)) + 1
            /\ Len(frame[i].sent) = 1
            /\ frame[i].sent[1].prompt = frame[i].event.body.message
            /\ DOMAIN frame[i].sent[1] =
                  {"prompt", "max_new_tokens", "do_sample", "temperature", "top_p"}

\* success with a two-turn history ending in a user turn
C4_Witness ==
    /\ Done(1) /\ IsFastapi(1) /\ Status(1) = 200
    /\ Len(CallerHistory(1)) = 2
    /\ CallerHistory(1)[2] = [role |-> "user", content |-> "a"]

\* the turns of msgs whose role is user or assistant, in order, in the
\* backend's message shape
Forwarded(msgs) ==
    LET kept == SelectSeq(msgs, LAMBDA t : t.role \in {"user", "assistant"})
    IN [k \in 1..Len(kept) |->
            [role |-> kept[k].role, content |-> <<[text |-> kept[k].content]>>]]

OtherRoleCount(msgs) ==
    Cardinality({k \in 1..Len(msgs) : msgs[k].role \notin {"user", "assistant"}})

\* a turn without a role, or a user/assistant turn without content
Malformed(t) ==
    \/ t.role = MISSING
    \/ t.role \in {"user", "assistant"} /\ t.content = MISSING

\* everything but the turns' roles lets the request through to the mapping
RequestReachesMapping(i) ==
    /\ frame[i].event.auth # "noclaims"
    /\ HasObjectBody(i)
    /\ frame[i].event.body.message # MISSING
    /\ HistoryIsList(i)

\* C5: in lambda_handler the messages sent to the hosted backend are exactly
\* the user and assistant turns of the assembled sequence, in order, each as
\* {role, content:[{text}]}; the number dropped is total minus mapped; and a
\* turn of another role never makes the mapping raise: the mapping step fails
\* only for a request that is itself malformed.
C5_RoleFilter ==
    /\ [](\A i \in Inv :
            IsLambda(i) =>
              /\ frame[i].pc \in {"call", "validate"} =>
                    /\ frame[i].bedrock_messages = Forwarded(frame[i].messages)
                    /\ Len(frame[i].messages) - Len(frame[i].bedrock_messages)
                          = OtherRoleCount(frame[i].messages)
              /\ frame[i].sent # <<>> =>
                    frame[i].sent[1].messages
                        = Forwarded(CallerHistory(i) \o <<UserTurn(frame[i].message)>>))
    /\ [][\A i \in Inv :
            (/\ IsLambda(i)
             /\ frame[i].pc = "parse"
             /\ frame'[i].pc = "done")
            => \/ ~RequestReachesMapping(i)
               \/ \E k \in 1..Len(CallerHistory(i)) : Malformed(CallerHistory(i)[k])]_vars

\* a history with a turn of another role (and no content) went to the backend
C5_Witness ==
    /\ IsLambda(1) /\ frame[1].pc = "validate"
    /\ Len(CallerHistory(1)) = 2
    /\ CallerHistory(1)[1] = [role |-> "system", content |-> MISSING]
    /\ CallerHistory(1)[2].role = "assistant"
    /\ Len(frame[1].sent[1].messages) = 2

\* the decoded reply has output.message.content[0].text
HasFirstText(rb) ==
    /\ rb.kind = "obj"
    /\ rb.output.kind = "obj"
    /\ rb.output.message.kind = "obj"
    /\ rb.output.message.content.kind = "list"
    /\ Len(rb.output.message.content.items) >= 1
    /\ rb.output.message.content.items[1].text # MISSING

\* C6: in lambda_handler a decoded backend reply without output, message,
\* content, a first content element or its text field gives the failure
\* envelope with a non-empty error; any other decoded reply gives 200 with
\* body.response the text of the first content element.
C6_ResponseValidation ==
    \A i \in Inv :
        (IsLambda(i) /\ Done(i) /\ frame[i].reply.kind = "json") =>
            IF HasFirstText(frame[i].reply.val)
            THEN /\ SuccessShape(i)
                 /\ frame[i].result.body.response =
                        frame[i].reply.val.output.message.content.items[1].text
            ELSE /\ FailureShape(i)
                 /\ frame[i].result.body.error # ""

\* the first content element has no text although a later one has
C6_Witness ==
    /\ IsLambda(1) /\ Done(1) /\ frame[1].reply.kind = "json"
    /\ frame[1].reply.val.kind = "obj"
    /\ frame[1].reply.val.output.kind = "obj"
    /\ frame[1].reply.val.output.message.kind = "obj"
    /\ frame[1].reply.val.output.message.content
          = List(<<[text |-> MISSING], [text |-> "second"]>>)
    /\ Status(1) = 500

\* the decoded 2xx reply has both generated_text and response_time
HasBothFields(ar) ==
    /\ ar.kind = "obj"
    /\ ar.generated_text # MISSING
    /\ ar.response_time # MISSING

\* C7 as stated: a non-2xx reply and a 2xx reply lacking generated_text or
\* response_time give the failure envelope; a 2xx reply with both gives 200
\* with response = generated_text and response_time = response_time.
C7_ReplyDecidesOutcome ==
    \A i \in Inv :
        (IsFastapi(i) /\ Done(i) /\ frame[i].reply.kind \in {"httperror", "json"}) =>
            IF frame[i].reply.kind = "json" /\ HasBothFields(frame[i].reply.val)
            THEN /\ SuccessShape(i)
                 /\ frame[i].result.body.response = frame[i].reply.val.generated_text
                 /\ frame[i].result.body.response_time = frame[i].reply.val.response_time
            ELSE FailureShape(i)

\* C7 amended: as C7, but a 2xx reply with both fields gives 200 only when the
\* request's conversationHistory is absent or an array; when it is present
\* and not an array the invocation ends in the failure envelope, after the
\* backend has been called.
C7_ReplyAndHistoryDecideOutcome ==
    \A i \in Inv :
        (IsFastapi(i) /\ Done(i) /\ frame[i].reply.kind \in {"httperror", "json"}) =>
            IF /\ frame[i].reply.kind = "json"
               /\ HasBothFields(frame[i].reply.val)
               /\ HistoryIsList(i)
            THEN /\ SuccessShape(i)
                 /\ frame[i].result.body.response = frame[i].reply.val.generated_text
                 /\ frame[i].result.body.response_time = frame[i].reply.val.response_time
            ELSE /\ FailureShape(i)
                 /\ Len(frame[i].sent) = 1

\* a reply with both fields met a request with a two-turn history: 200
C7_Witness ==
    /\ IsFastapi(1) /\ Done(1)
    /\ frame[1].reply.kind = "json"
    /\ HasBothFields(frame[1].reply.val)
    /\ Len(CallerHistory(1)) = 2
    /\ Status(1) = 200
    /\ frame[1].result.body.response_time = "0.42"

\* C8: with non-overlapping invocations the handle changes only from None,
\* only in a lambda_handler invocation that found it None, and to the client
\* for the region of that invocation's ARN; once set it never changes; an
\* invocation that finds it set derives no region and calls the backend
\* through it; lambda_fastapi_handler neither writes nor uses it.
C8_ClientCache ==
    [][/\ bedrock_client # None => bedrock_client' = bedrock_client
       /\ bedrock_client' # bedrock_client =>
             /\ bedrock_client = None
             /\ IsLambda(1) /\ frame[1].pc = "construct"
             /\ bedrock_client' = extract_region_from_arn(frame[1].arn)
             /\ bedrock_client' # None
       /\ (frame[1].pc = "init" /\ bedrock_client # None) =>
             /\ frame'[1].pc = "parse"
             /\ frame'[1].region = NoRegion
       /\ (frame[1].pc = "init" /\ bedrock_client = None) =>
             frame'[1].pc = "construct"
       /\ frame'[1].region # frame[1].region =>
             \/ frame[1].pc = "construct" /\ bedrock_client = None
             \/ frame'[1].pc = "idle"
       /\ (Len(frame'[1].sent) > Len(frame[1].sent) /\ IsLambda(1)) =>
             /\ frame'[1].client_used = bedrock_client
             /\ bedrock_client # None
       /\ IsFastapi(1) =>
             /\ bedrock_client' = bedrock_client
             /\ frame'[1].client_used = None
             /\ frame'[1].region = NoRegion]_vars

\* an invocation whose ARN names another region succeeded through the cached
\* client without deriving a region
C8_Witness ==
    /\ IsLambda(1) /\ Done(1) /\ Status(1) = 200
    /\ frame[1].region = NoRegion
    /\ frame[1].client_used = "ap-northeast-1"
    /\ extract_region_from_arn(frame[1].arn) = "eu-west-1"
    /\ bedrock_client = "ap-northeast-1"

\* what lambda_handler returns for this event and backend reply when no other
\* invocation runs and the client is there
AloneResult(ev, reply) ==
    LET p == PrepareBedrock(ev)
    IN IF ~p.ok THEN FailureEnvelope(p.error)
       ELSE CASE reply.kind = "raise" -> FailureEnvelope(reply.error)
              [] reply.kind = "badjson" ->
                    FailureEnvelope("Expecting value: line 1 column 1 (char 0)")
              [] reply.kind = "json" ->
                    LET v == ValidateBedrock(reply.val)
                    IN IF ~v.ok THEN FailureEnvelope(v.error)
                       ELSE SuccessEnvelopeA(v.val,
                                Append(p.val.messages, AssistantTurn(v.val)))
              [] OTHER -> NoResult

\* this invocation's own boto3.client(...) call raised
ConstructionRaised(i) ==
    /\ Done(i)
    /\ frame[i].region # NoRegion
    /\ frame[i].sent = <<>>
    /\ frame[i].result = FailureEnvelope("Could not create client")

\* C9: with two interleaved lambda_handler invocations, every backend call
\* goes through a client that is not None, the handle is not None once an
\* invocation is past initialisation, and every response is the one the
\* invocation gives for its event and backend reply when it runs alone.
C9_RaceHarmless ==
    \A i \in Inv :
        /\ frame[i].sent # <<>> => frame[i].client_used # None
        /\ frame[i].pc \in {"parse", "call", "validate"} => bedrock_client # None
        /\ (Done(i) /\ ~ConstructionRaised(i)) =>
              /\ bedrock_client # None
              /\ frame[i].result = AloneResult(frame[i].event, frame[i].reply)

\* both invocations found the handle None and both constructed a client; the
\* first has answered through the client the second one stored
C9_Witness ==
    /\ frame[1].region = "eu-west-1" /\ frame[2].region = "us-east-1"
    /\ Done(1) /\ Status(1) = 200
    /\ frame[1].client_used = "us-east-1"
    /\ frame[2].pc = "call"

\* the request is rejected by the parser: no JSON object, or no message field
RejectedByParser(i) ==
    \/ ~HasObjectBody(i)
    \/ frame[i].event.body.message = MISSING

\* the backend call raised or its reply does not validate
BackendFailed(i) ==
    \/ frame[i].reply.kind \in {"raise", "badjson", "httperror", "urlerror"}
    \/ /\ frame[i].reply.kind = "json"
       /\ IF IsLambda(i) THEN ~HasFirstText(frame[i].reply.val)
          ELSE ~HasBothFields(frame[i].reply.val)

\* C10: no invocation of either handler calls its backend more than once; a
\* raising call or an invalid reply ends in the failure envelope after that
\* one call; a body that is not a JSON object or has no message field ends in
\* the failure envelope with no call made.
C10_AtMostOneCall ==
    \A i \in Inv :
        /\ Len(frame[i].sent) <= 1
        /\ frame[i].pc \in {"idle", "init", "construct", "parse", "call"} =>
              frame[i].sent = <<>>
        /\ frame[i].pc = "validate" => Len(frame[i].sent) = 1
        /\ (Done(i) /\ RejectedByParser(i)) =>
              /\ frame[i].sent = <<>>
              /\ FailureShape(i)
        /\ (Done(i) /\ BackendFailed(i)) =>
              /\ Len(frame[i].sent) = 1
              /\ FailureShape(i)

\* the hosted backend raised and the invocation failed after its one call
C10_Witness ==
    /\ IsLambda(1) /\ Done(1)
    /\ frame[1].reply.kind = "raise"
    /\ Len(frame[1].sent) = 1
    /\ Status(1) = 500

====
